---------------------------- MODULE Spec2Model ----------------------------
(***************************************************************************)
(* A model of the article summarization pipeline of                        *)
(* src/01_Article_Summarizer.py: the text cleaner (clean_pdf_text), the    *)
(* citation stripper (strip_citations_and_references), the prompt builder  *)
(* (summarize_structured), the model client (query_ollama), the response   *)
(* recoverer (strip_thoughts, clean_json) and the batch run loop.          *)
(*                                                                         *)
(* Texts are sequences of one-character strings.  Every regular expression *)
(* of the source is an operator that gives, for a start position, the end  *)
(* of the match Python's re module finds there (0 when there is none).     *)
(***************************************************************************)
EXTENDS Integers, Sequences, FiniteSets, TLC

VARIABLES
    \* the pure text functions, applied to a drawn input
    arg,            \* the input text (or reply) of the function under study
    ret,            \* its result
    ret2,           \* the result of applying it again to ret
    fpc,            \* "idle" | "in" | "out" | "again"
    json_obj,       \* the JSON object text a drawn reply was built around
    \* one call of query_ollama
    retries,        \* the retries argument
    attempt,        \* the loop variable
    qpc,            \* "idle" | "loop" | "post" | "except" | "sleep" | "returned"
    qerr,           \* the exception the except clause holds
    response,       \* the "response" field of the payload of the last request
    qresult,        \* what the call returned
    requests,       \* requests.post calls made so far
    sleeps,         \* time.sleep(1) calls made so far
    outcomes,       \* the outcome of each attempt so far, in order
    \* the batch run loop
    pdfs,           \* the list of documents
    idx,            \* the position of the loop in pdfs
    pc,             \* the statement the loop is at
    pdf_text,
    clean_text,
    prompt,
    raw_responses,
    cleaned,
    results,
    files,          \* the JSON files written so far: path -> content
    log,            \* the documents an error line was printed for
    stages          \* the stages run for the current document, in order

fvars == <<arg, ret, ret2, fpc, json_obj>>
qvars == <<retries, attempt, qpc, qerr, response, qresult, requests, sleeps,
           outcomes>>
dvars == <<pdfs, idx, pc, pdf_text, clean_text, prompt, raw_responses,
           cleaned, results, files, log, stages>>
vars == <<fvars, qvars, dvars>>

\* the parts of the state a specification does not use
FunctionsIdle ==
    /\ arg = <<>>
    /\ ret = <<>>
    /\ ret2 = <<>>
    /\ fpc = "idle"
    /\ json_obj = <<>>

QueryIdle ==
    /\ retries = 0
    /\ attempt = 0
    /\ qpc = "idle"
    /\ qerr = <<>>
    /\ response = <<>>
    /\ qresult = [kind |-> "unset", text |-> <<>>]
    /\ requests = 0
    /\ sleeps = 0
    /\ outcomes = <<>>

DriverIdle ==
    /\ pdfs = <<>>
    /\ idx = 0
    /\ pc = "idle"
    /\ pdf_text = <<>>
    /\ clean_text = <<>>
    /\ prompt = <<>>
    /\ raw_responses = <<>>
    /\ cleaned = <<>>
    /\ results = <<>>
    /\ files = <<>>
    /\ log = {}
    /\ stages = <<>>

---------------------------------------------------------------------------
(* Characters and Python's str helpers                                     *)

UpperLetters ==
    <<"A","B","C","D","E","F","G","H","I","J","K","L","M",
      "N","O","P","Q","R","S","T","U","V","W","X","Y","Z">>

LowerLetters ==
    <<"a","b","c","d","e","f","g","h","i","j","k","l","m",
      "n","o","p","q","r","s","t","u","v","w","x","y","z">>

UpperSet == {UpperLetters[i] : i \in 1..26}
LowerSet == {LowerLetters[i] : i \in 1..26}
DigitSet == {"0","1","2","3","4","5","6","7","8","9"}

\* \s of the re module (ASCII part)
SpaceSet == {" ", "\t", "\n", "\r", "\f"}

\* [ \t]
HSpaceSet == {" ", "\t"}

\* membership of a character in a regex character class
InClass(c, cls) ==
    CASE cls = "w"  -> c \in UpperSet \cup LowerSet \cup DigitSet \cup {"_"}
      [] cls = "d"  -> c \in DigitSet
      [] cls = "s"  -> c \in SpaceSet
      [] cls = "S"  -> c \notin SpaceSet
      [] cls = "h"  -> c \in HSpaceSet
      [] cls = "nl" -> c = "\n"
      [] cls = "A-Z" -> c \in UpperSet
      [] cls = "jw" -> c \in {" ", "\t", "\n", "\r"}

\* str.lower on one character
LowerChar(c) ==
    IF c \in UpperSet
    THEN LowerLetters[CHOOSE i \in 1..26 : UpperLetters[i] = c]
    ELSE c

\* str.lower
Lower(t) == [i \in 1..Len(t) |-> LowerChar(t[i])]

\* the last index of the run of class cls that starts at i (i-1 when empty)
RECURSIVE RunEnd(_, _, _)
RunEnd(t, i, cls) ==
    IF i <= Len(t) /\ InClass(t[i], cls) THEN RunEnd(t, i + 1, cls) ELSE i - 1

\* whether the literal lit stands in t at position i
LitAt(t, i, lit) ==
    /\ i >= 1
    /\ i + Len(lit) - 1 <= Len(t)
    /\ \A k \in 1..Len(lit) : t[i + k - 1] = lit[k]

\* the same, ignoring letter case (re.IGNORECASE)
LitAtNoCase(t, i, lit) ==
    /\ i >= 1
    /\ i + Len(lit) - 1 <= Len(t)
    /\ \A k \in 1..Len(lit) : LowerChar(t[i + k - 1]) = LowerChar(lit[k])

\* str.strip(): leading and trailing whitespace removed
Strip(t) ==
    LET keep == {i \in 1..Len(t) : t[i] \notin SpaceSet}
    IN  IF keep = {} THEN <<>>
        ELSE LET lo == CHOOSE i \in keep : \A j \in keep : i <= j
                 hi == CHOOSE i \in keep : \A j \in keep : i >= j
             IN  SubSeq(t, lo, hi)

\* re.sub with a constant replacement: ends[i] is the last index of the match
\* that starts at i, or 0; matches are taken leftmost, without overlap
RECURSIVE SubFrom(_, _, _, _)
SubFrom(t, ends, repl, i) ==
    IF i > Len(t) THEN <<>>
    ELSE IF ends[i] >= i
         THEN repl \o SubFrom(t, ends, repl, ends[i] + 1)
         ELSE <<t[i]>> \o SubFrom(t, ends, repl, i + 1)

\* str.split('\n')
RECURSIVE SplitLinesFrom(_, _, _)
SplitLinesFrom(t, i, cur) ==
    IF i > Len(t) THEN <<cur>>
    ELSE IF t[i] = "\n"
         THEN <<cur>> \o SplitLinesFrom(t, i + 1, <<>>)
         ELSE SplitLinesFrom(t, i + 1, Append(cur, t[i]))

SplitLines(t) == SplitLinesFrom(t, 1, <<>>)

\* '\n'.join(lines)
RECURSIVE JoinLines(_)
JoinLines(ls) ==
    IF Len(ls) = 0 THEN <<>>
    ELSE IF Len(ls) = 1 THEN ls[1]
         ELSE ls[1] \o <<"\n">> \o JoinLines(Tail(ls))

---------------------------------------------------------------------------
(* clean_pdf_text                                                          *)

\* 1. re.sub(r'(\w+)-\n(\w+)', r'\1\2', text): i scans the text, avail is the
\*    first index a match may start at (the end of the previous match)
RECURSIVE DehyphenateFrom(_, _, _)
DehyphenateFrom(t, i, avail) ==
    IF i > Len(t) THEN <<>>
    ELSE IF /\ t[i] = "-"
            /\ i + 2 <= Len(t)
            /\ t[i + 1] = "\n"
            /\ InClass(t[i + 2], "w")
            /\ i - 1 >= avail
            /\ InClass(t[i - 1], "w")
         THEN LET r == RunEnd(t, i + 2, "w")
              IN  SubSeq(t, i + 2, r) \o DehyphenateFrom(t, r + 1, r + 1)
         ELSE <<t[i]>> \o DehyphenateFrom(t, i + 1, avail)

Dehyphenate(t) == DehyphenateFrom(t, 1, 1)

\* 2. re.sub(r'(?<!\n)\n(?![\nA-Z])', ' ', text)
MergeLines(t) ==
    [i \in 1..Len(t) |->
        IF /\ t[i] = "\n"
           /\ (i = 1 \/ t[i - 1] # "\n")
           /\ (i = Len(t) \/ ~(t[i + 1] = "\n" \/ t[i + 1] \in UpperSet))
        THEN " " ELSE t[i]]

\* 3a. r'^\s*\d{1,4}\s*$' with re.MULTILINE
PageNumberEnd(t, i) ==
    IF ~(i = 1 \/ t[i - 1] = "\n") THEN 0
    ELSE LET s == RunEnd(t, i, "s")          \* leading \s*
             d == RunEnd(t, s + 1, "d")      \* \d{1,4}
             w == RunEnd(t, d + 1, "s")      \* trailing \s*, greedy
             nls == {k \in (d + 1)..w : t[k] = "\n"}
         IN  IF d - s < 1 \/ d - s > 4 THEN 0
             ELSE IF w = Len(t) THEN w
             ELSE IF nls = {} THEN 0
             ELSE (CHOOSE k \in nls : \A j \in nls : k >= j) - 1

RemovePageNumbers(t) ==
    SubFrom(t, [i \in 1..Len(t) |->
                  LET e == PageNumberEnd(t, i) IN IF e >= i THEN e ELSE 0],
            <<>>, 1)

\* 3b. r'Page\s*\d+' with re.IGNORECASE
PageTokenEnd(t, i) ==
    IF ~LitAtNoCase(t, i, <<"P","a","g","e">>) THEN 0
    ELSE LET s == RunEnd(t, i + 4, "s")
             d == RunEnd(t, s + 1, "d")
         IN  IF d > s THEN d ELSE 0

RemovePageTokens(t) ==
    SubFrom(t, [i \in 1..Len(t) |-> PageTokenEnd(t, i)], <<>>, 1)

\* 3c. r'\|\s*www\.\S+\s*\|?'
WebFooterEnd(t, i) ==
    IF ~LitAt(t, i, <<"|">>) THEN 0
    ELSE LET s == RunEnd(t, i + 1, "s")
         IN  IF ~LitAt(t, s + 1, <<"w","w","w",".">>) THEN 0
             ELSE LET n == RunEnd(t, s + 5, "S")
                      w == RunEnd(t, n + 1, "s")
                  IN  IF n < s + 5 THEN 0
                      ELSE IF LitAt(t, w + 1, <<"|">>) THEN w + 1 ELSE w

RemoveWebFooters(t) ==
    SubFrom(t, [i \in 1..Len(t) |-> WebFooterEnd(t, i)], <<>>, 1)

\* 3d. r'https?://\S+'
UrlEnd(t, i) ==
    IF ~LitAt(t, i, <<"h","t","t","p">>) THEN 0
    ELSE LET p == IF LitAt(t, i + 4, <<"s">>) THEN i + 5 ELSE i + 4
         IN  IF ~LitAt(t, p, <<":","/","/">>) THEN 0
             ELSE LET n == RunEnd(t, p + 3, "S")
                  IN  IF n < p + 3 THEN 0 ELSE n

RemoveUrls(t) ==
    SubFrom(t, [i \in 1..Len(t) |-> UrlEnd(t, i)], <<>>, 1)

\* 4. the deduplication loop over text.split('\n')
RECURSIVE DedupFrom(_, _, _)
DedupFrom(lines, k, seen) ==
    IF k > Len(lines) THEN <<>>
    ELSE LET l == Strip(lines[k])
         IN  IF l # <<>> /\ Lower(l) \notin seen
             THEN <<lines[k]>> \o DedupFrom(lines, k + 1, seen \cup {Lower(l)})
             ELSE DedupFrom(lines, k + 1, seen)

Deduplicate(t) == JoinLines(DedupFrom(SplitLines(t), 1, {}))

\* 5. whitespace normalization, one operator per re.sub
CollapseHSpace(t) ==                             \* r'[ \t]+' -> ' '
    SubFrom(t, [i \in 1..Len(t) |-> RunEnd(t, i, "h")], <<" ">>, 1)

StripLeadingSpace(t) ==                          \* r'\n[ \t]+' -> '\n'
    SubFrom(t, [i \in 1..Len(t) |->
                  IF t[i] = "\n" /\ RunEnd(t, i + 1, "h") > i
                  THEN RunEnd(t, i + 1, "h") ELSE 0],
            <<"\n">>, 1)

StripTrailingSpace(t) ==                         \* r'[ \t]+\n' -> '\n'
    SubFrom(t, [i \in 1..Len(t) |->
                  LET r == RunEnd(t, i, "h")
                  IN  IF r >= i /\ LitAt(t, r + 1, <<"\n">>) THEN r + 1 ELSE 0],
            <<"\n">>, 1)

CollapseBlankLines(t) ==                         \* r'\n{3,}' -> '\n\n'
    SubFrom(t, [i \in 1..Len(t) |->
                  LET r == RunEnd(t, i, "nl")
                  IN  IF r - i + 1 >= 3 THEN r ELSE 0],
            <<"\n", "\n">>, 1)

CollapseDoubleSpace(t) ==                        \* r'[ \t]{2,}' -> ' '
    SubFrom(t, [i \in 1..Len(t) |->
                  LET r == RunEnd(t, i, "h")
                  IN  IF r - i + 1 >= 2 THEN r ELSE 0],
            <<" ">>, 1)

NormalizeWhitespace(t) ==
    CollapseDoubleSpace(CollapseBlankLines(StripTrailingSpace(
        StripLeadingSpace(CollapseHSpace(t)))))

clean_pdf_text(text) ==
    Strip(NormalizeWhitespace(Deduplicate(
        RemoveUrls(RemoveWebFooters(RemovePageTokens(RemovePageNumbers(
            MergeLines(Dehyphenate(text)))))))))

---------------------------------------------------------------------------
(* Inputs of the text functions: texts of up to MaxLines lines             *)

MaxLines == 3

SeqsUpTo(S, n) == UNION {[1..k -> S] : k \in 0..n}

RawLinePool ==
    { <<>>,
      <<"a">>,
      <<"b">>,
      <<"a","\t","b">>,
      <<"A"," ","b">>,
      <<" ","b"," ">>,
      <<"a","-">>,
      <<"1","2">>,
      <<"P","a","g","e"," ","3","a">>,
      <<"a","|","w","w","w",".","x"," ","|">>,
      <<"h","t","t","p","s",":","/","/","x"," ","b">> }

RawTexts == {JoinLines(ls) : ls \in SeqsUpTo(RawLinePool, MaxLines)}

---------------------------------------------------------------------------
(* The cleaner applied once, then again to its own output                  *)

InitClean ==
    /\ arg \in RawTexts
    /\ ret = <<>>
    /\ ret2 = <<>>
    /\ fpc = "in"
    /\ json_obj = <<>>
    /\ QueryIdle
    /\ DriverIdle

Normalize ==
    /\ fpc = "in"
    /\ ret' = clean_pdf_text(arg)
    /\ fpc' = "out"
    /\ UNCHANGED <<arg, ret2, json_obj, qvars, dvars>>

NormalizeAgain ==
    /\ fpc = "out"
    /\ ret2' = clean_pdf_text(ret)
    /\ fpc' = "again"
    /\ UNCHANGED <<arg, ret, json_obj, qvars, dvars>>

NextClean == Normalize \/ NormalizeAgain

SpecClean == InitClean /\ [][NextClean]_vars


\* C6: clean_pdf_text is idempotent: cleaning its own output again gives the
\* same text, for every input text (also one with blank-line paragraph
\* breaks).
C6_Idempotent == fpc = "again" => ret2 = ret

\* the lines of t that are not empty after trimming, trimmed and lower-cased
LineKeys(t) ==
    LET ls == SplitLines(t)
    IN  [k \in 1..Len(ls) |-> Lower(Strip(ls[k]))]

\* C9: the output of clean_pdf_text has no two non-empty lines that are equal
\* after trimming and lower-casing.
C9_NoDuplicateLines ==
    fpc = "out" =>
        LET keys == LineKeys(ret)
        IN  \A j, k \in 1..Len(keys) :
                (j < k /\ keys[j] # <<>>) => keys[j] # keys[k]

---------------------------------------------------------------------------
(* strip_citations_and_references                                          *)

\* whether four digits in a row lie within t[lo..hi]
HasFourDigits(t, lo, hi) ==
    \E k \in lo..(hi - 3) : \A d \in 0..3 : t[k + d] \in DigitSet

\* r'\(([^)]*\d{4}[^)]*)\)'
ParenCitationEnd(t, i) ==
    IF t[i] # "(" THEN 0
    ELSE LET closers == {j \in (i + 1)..Len(t) : t[j] = ")"}
         IN  IF closers = {} THEN 0
             ELSE LET j == CHOOSE c \in closers : \A o \in closers : c <= o
                  IN  IF HasFourDigits(t, i + 1, j - 1) THEN j ELSE 0

RemoveParenCitations(t) ==
    SubFrom(t, [i \in 1..Len(t) |-> ParenCitationEnd(t, i)], <<>>, 1)

\* the (,\s*\d+)*\] part of the bracket pattern, from position p
RECURSIVE BracketTailEnd(_, _)
BracketTailEnd(t, p) ==
    IF p > Len(t) THEN 0
    ELSE IF t[p] = "]" THEN p
    ELSE IF t[p] = ","
         THEN LET s == RunEnd(t, p + 1, "s")
                  d == RunEnd(t, s + 1, "d")
              IN  IF d > s THEN BracketTailEnd(t, d + 1) ELSE 0
         ELSE 0

\* r'\[\d+(,\s*\d+)*\]'
BracketCitationEnd(t, i) ==
    IF t[i] # "[" THEN 0
    ELSE LET d == RunEnd(t, i + 1, "d")
         IN  IF d > i THEN BracketTailEnd(t, d + 1) ELSE 0

RemoveBracketCitations(t) ==
    SubFrom(t, [i \in 1..Len(t) |-> BracketCitationEnd(t, i)], <<>>, 1)

\* the alternatives of (References|Bibliography|Works Cited)
Headings ==
    << <<"R","e","f","e","r","e","n","c","e","s">>,
       <<"B","i","b","l","i","o","g","r","a","p","h","y">>,
       <<"W","o","r","k","s"," ","C","i","t","e","d">> >>

\* r'\n\s*(References|Bibliography|Works Cited)\s*\n' with re.IGNORECASE:
\* whether a match starts at i
HeadingMatchAt(t, i) ==
    /\ t[i] = "\n"
    /\ LET s == RunEnd(t, i + 1, "s")
       IN  \E h \in 1..Len(Headings) :
              /\ LitAtNoCase(t, s + 1, Headings[h])
              /\ LET e == s + Len(Headings[h])
                     w == RunEnd(t, e + 1, "s")
                 IN  \E k \in (e + 1)..w : t[k] = "\n"

\* re.split(pattern, text)[0]: the text before the leftmost match
CutAtReferences(t) ==
    LET starts == {i \in 1..Len(t) : HeadingMatchAt(t, i)}
    IN  IF starts = {} THEN t
        ELSE SubSeq(t, 1, (CHOOSE i \in starts : \A j \in starts : i <= j) - 1)

strip_citations_and_references(text) ==
    Strip(CutAtReferences(RemoveBracketCitations(RemoveParenCitations(text))))

CitedLinePool ==
    { <<>>,
      <<"a">>,
      <<"R","e","f","e","r","e","n","c","e","s">>,
      <<" ","b","i","b","l","i","o","g","r","a","p","h","y"," ">>,
      <<"W","o","r","k","s"," ","C","i","t","e","d">>,
      <<"R","e","f","e","r","e","n","c","e","s","a">>,
      <<"a"," ","(","b"," ","2","0","2","0",")">>,
      <<"(","1","2","[","3","]","4","5",")">>,
      <<"[","1",","," ","2","]">>,
      <<"(","a">>,
      <<"2","0","2","0",")">> }

CitedTexts == {JoinLines(ls) : ls \in SeqsUpTo(CitedLinePool, MaxLines)}

InitStrip ==
    /\ arg \in CitedTexts
    /\ ret = <<>>
    /\ ret2 = <<>>
    /\ fpc = "in"
    /\ json_obj = <<>>
    /\ QueryIdle
    /\ DriverIdle

StripCitations ==
    /\ fpc = "in"
    /\ ret' = strip_citations_and_references(arg)
    /\ fpc' = "out"
    /\ UNCHANGED <<arg, ret2, json_obj, qvars, dvars>>

NextStrip == StripCitations

SpecStrip == InitStrip /\ [][NextStrip]_vars

\* whether line l consists solely of a heading word, in any letter case, with
\* optional whitespace around it
IsHeadingLine(l) ==
    \E h \in 1..Len(Headings) : Lower(Strip(l)) = Lower(Headings[h])

\* the text before the first heading line of t; t itself when it has none
BeforeHeadingLine(t) ==
    LET ls == SplitLines(t)
        hs == {k \in 1..Len(ls) : IsHeadingLine(ls[k])}
    IN  IF hs = {} THEN t
        ELSE JoinLines(SubSeq(ls, 1, (CHOOSE k \in hs : \A j \in hs : k <= j) - 1))

\* C7: the output of strip_citations_and_references holds nothing from the
\* first line that consists solely of "References", "Bibliography" or
\* "Works Cited" onward, wherever that line is (first, middle or last line);
\* with no such line the cut removes nothing.
C7_CutAtHeadingLine ==
    fpc = "out" =>
        ret = Strip(BeforeHeadingLine(
                  RemoveBracketCitations(RemoveParenCitations(arg))))

\* whether t holds a group "(...)", with no ")" inside, whose content has
\* four digits in a row
HasYearGroup(t) ==
    \E i, j \in 1..Len(t) :
        /\ i < j
        /\ t[i] = "("
        /\ t[j] = ")"
        /\ \A k \in (i + 1)..(j - 1) : t[k] # ")"
        /\ HasFourDigits(t, i + 1, j - 1)

\* C8: the output of strip_citations_and_references holds no parenthetical
\* group whose content includes four consecutive digits, also when the input
\* mixes parenthetical and bracketed numeric citations.
C8_NoYearGroup == fpc = "out" => ~HasYearGroup(ret)

---------------------------------------------------------------------------
(* json.loads, for the texts the replies below are made of: objects,       *)
(* arrays, strings with the one-letter escapes and the literals true,      *)
(* false and null, with JSON whitespace between tokens.  A parsed value is *)
(* a record [k, v]: k = "obj" with v a function from keys to values,       *)
(* k = "arr" with v a sequence of values, k = "str" with v the characters, *)
(* k = "lit" with v the literal's characters.                              *)

\* the character at i, or "" past either end
At(t, i) == IF i \in 1..Len(t) THEN t[i] ELSE ""

\* characters below 0x20, which a JSON string may not hold unescaped
ControlSet == {"\t", "\n", "\r", "\f"}

\* skip JSON whitespace from i
SkipWs(t, i) == RunEnd(t, i, "jw") + 1

ParseFail == [ok |-> FALSE, pos |-> 0, val |-> [k |-> "none", v |-> <<>>]]

ParseOk(p, kind, value) == [ok |-> TRUE, pos |-> p, val |-> [k |-> kind, v |-> value]]

EmptyMapping == [k |-> "obj", v |-> <<>>]

\* the character an escape letter stands for ("" when it is no escape)
Unescape(c) ==
    CASE c = "\"" -> "\""
      [] c = "\\" -> "\\"
      [] c = "/"  -> "/"
      [] c = "b"  -> "<BS>"
      [] c = "f"  -> "\f"
      [] c = "n"  -> "\n"
      [] c = "r"  -> "\r"
      [] c = "t"  -> "\t"
      [] OTHER    -> ""

\* the string whose opening quote is before i: its characters up to the
\* closing quote
RECURSIVE ScanString(_, _, _)
ScanString(t, i, acc) ==
    LET c == At(t, i)
    IN  IF c = "" \/ c \in ControlSet THEN ParseFail
        ELSE IF c = "\"" THEN ParseOk(i + 1, "str", acc)
        ELSE IF c = "\\"
             THEN IF At(t, i + 1) = "" \/ Unescape(At(t, i + 1)) = ""
                  THEN ParseFail
                  ELSE ScanString(t, i + 2, Append(acc, Unescape(At(t, i + 1))))
        ELSE ScanString(t, i + 1, Append(acc, c))

\* dict[key] = value
Assign(f, key, value) ==
    [x \in DOMAIN f \cup {key} |-> IF x = key THEN value ELSE f[x]]

Literals ==
    { <<"n","u","l","l">>, <<"t","r","u","e">>, <<"f","a","l","s","e">> }

RECURSIVE ParseValue(_, _), ParseMembers(_, _, _), ParseElements(_, _, _)

\* the value that starts at i
ParseValue(t, i) ==
    LET c == At(t, i)
    IN  IF c = "\"" THEN ScanString(t, i + 1, <<>>)
        ELSE IF c = "{"
             THEN LET p == SkipWs(t, i + 1)
                  IN  IF At(t, p) = "}" THEN ParseOk(p + 1, "obj", <<>>)
                      ELSE ParseMembers(t, p, <<>>)
        ELSE IF c = "["
             THEN LET p == SkipWs(t, i + 1)
                  IN  IF At(t, p) = "]" THEN ParseOk(p + 1, "arr", <<>>)
                      ELSE ParseElements(t, p, <<>>)
        ELSE IF \E l \in Literals : LitAt(t, i, l)
             THEN LET l == CHOOSE l \in Literals : LitAt(t, i, l)
                  IN  ParseOk(i + Len(l), "lit", l)
        ELSE ParseFail

\* the members of an object from i, where a key must start
ParseMembers(t, i, acc) ==
    IF At(t, i) # "\"" THEN ParseFail
    ELSE LET key == ScanString(t, i + 1, <<>>)
         IN  IF ~key.ok THEN ParseFail
             ELSE LET q == SkipWs(t, key.pos)
                  IN  IF At(t, q) # ":" THEN ParseFail
                      ELSE LET val == ParseValue(t, SkipWs(t, q + 1))
                           IN  IF ~val.ok THEN ParseFail
                               ELSE LET r == SkipWs(t, val.pos)
                                        now == Assign(acc, key.val.v, val.val)
                                    IN  IF At(t, r) = "}"
                                        THEN ParseOk(r + 1, "obj", now)
                                        ELSE IF At(t, r) = ","
                                        THEN ParseMembers(t, SkipWs(t, r + 1), now)
                                        ELSE ParseFail

\* the elements of an array from i, where a value must start
ParseElements(t, i, acc) ==
    LET val == ParseValue(t, i)
    IN  IF ~val.ok THEN ParseFail
        ELSE LET r == SkipWs(t, val.pos)
                 now == Append(acc, val.val)
             IN  IF At(t, r) = "]" THEN ParseOk(r + 1, "arr", now)
                 ELSE IF At(t, r) = ","
                 THEN ParseElements(t, SkipWs(t, r + 1), now)
                 ELSE ParseFail

\* json.loads(s): ok is FALSE where it raises
json_loads(s) ==
    LET val == ParseValue(s, SkipWs(s, 1))
    IN  IF val.ok /\ SkipWs(s, val.pos) = Len(s) + 1 THEN val ELSE ParseFail

---------------------------------------------------------------------------
(* strip_thoughts and clean_json                                           *)

ThinkOpen == <<"<","t","h","i","n","k",">">>
ThinkClose == <<"<","/","t","h","i","n","k",">">>

\* r"<think>.*?</think>" with re.DOTALL
ThinkEnd(t, i) ==
    IF ~LitAt(t, i, ThinkOpen) THEN 0
    ELSE LET closes == {j \in (i + 7)..Len(t) : LitAt(t, j, ThinkClose)}
         IN  IF closes = {} THEN 0
             ELSE (CHOOSE j \in closes : \A o \in closes : j <= o) + 7

strip_thoughts(text) ==
    Strip(SubFrom(text, [i \in 1..Len(text) |-> ThinkEnd(text, i)], <<>>, 1))

\* raw_text.replace('\\n', '\n')
ReplaceEscapedNewlines(t) ==
    SubFrom(t, [i \in 1..Len(t) |->
                  IF LitAt(t, i, <<"\\", "n">>) THEN i + 1 ELSE 0],
            <<"\n">>, 1)

\* str.find(c): the 0-based index of the first c, or -1
Find(t, c) ==
    LET at == {i \in 1..Len(t) : t[i] = c}
    IN  IF at = {} THEN -1 ELSE (CHOOSE i \in at : \A j \in at : i <= j) - 1

\* str.rfind(c): the 0-based index of the last c, or -1
RFind(t, c) ==
    LET at == {i \in 1..Len(t) : t[i] = c}
    IN  IF at = {} THEN -1 ELSE (CHOOSE i \in at : \A j \in at : i >= j) - 1

\* a slice bound as Python reads it: negative counts from the end, and the
\* result is clamped to 0..len
SliceBound(n, len) ==
    LET m == IF n < 0 THEN n + len ELSE n
    IN  IF m < 0 THEN 0 ELSE IF m > len THEN len ELSE m

\* t[start:stop], with 0-based bounds
PySlice(t, start, stop) ==
    SubSeq(t, SliceBound(start, Len(t)) + 1, SliceBound(stop, Len(t)))

\* steps 1 to 3 of clean_json: the text handed to json.loads
JsonSlice(raw_text) ==
    LET text == Strip(ReplaceEscapedNewlines(strip_thoughts(raw_text)))
        json_start == Find(text, "{")
        json_end == RFind(text, "}") + 1
    IN  PySlice(text, json_start, json_end)

\* an except clause that returns nothing
ExceptReturn_None == [raised |-> FALSE, val |-> [k |-> "none", v |-> <<>>]]

\* the except clause of clean_json: the error is printed, {} is returned
ExceptReturn == [raised |-> FALSE, val |-> EmptyMapping]

\* clean_json on a reply string: raised says whether an exception leaves the
\* function, val is what it returns
clean_json(raw_text) ==
    LET parsed == json_loads(JsonSlice(raw_text))
    IN  IF parsed.ok THEN [raised |-> FALSE, val |-> parsed.val]
        ELSE ExceptReturn

---------------------------------------------------------------------------
(* Replies handed to clean_json                                            *)

MaxFragments == 4
MaxPieces == 2

RECURSIVE Flat(_)
Flat(ss) == IF Len(ss) = 0 THEN <<>> ELSE ss[1] \o Flat(Tail(ss))

\* the sentinel prefix of query_ollama
ErrorPrefix == <<"[","E","R","R","O","R","]"," ">>

ReplyFragments ==
    { <<"{">>,
      <<"}">>,
      <<"\"","a","\"",":">>,
      <<"\"","x","\"">>,
      <<",">>,
      <<"\\","n">>,
      ThinkOpen,
      ThinkClose,
      ErrorPrefix }

\* any reply: up to MaxFragments fragments in any order
AnyReplies == {Flat(fs) : fs \in SeqsUpTo(ReplyFragments, MaxFragments)}

\* replies built around one JSON object
JsonObjectPool ==
    { <<"{","}">>,
      <<"{","\"","a","\"",":","\"","x","\"","}">>,
      <<"{","\"","d","\"",":","\"","x","\"",",",
            "\"","h","\"",":","[","\"","H","\"","]","}">>,
      <<"{","\"","a","\"",":","\"","x","\\","n","y","\"","}">>,
      <<"{"," ","\"","a","\""," ",":"," ","{","\"","b","\"",":",
            "n","u","l","l","}"," ","}">>,
      <<"{","\"","a","\"",":","\"","x","\"",",","\"","a","\"",":","\"","y","\"","}">> }

ValidJsonObjects ==
    {o \in JsonObjectPool : json_loads(o).ok /\ json_loads(o).val.k = "obj"}

ThinkContents == { <<>>, <<"r">>, <<"{","\n","}">> }

BraceFreeProse ==
    { <<"S","o","m","e"," ">>, <<" ","t","r","a","i","l">>, <<"\\","n">> }

\* a <think>...</think> block, or a stretch of prose without braces
Pieces ==
    {ThinkOpen \o c \o ThinkClose : c \in ThinkContents} \cup BraceFreeProse

InitJson ==
    /\ \/ /\ arg \in AnyReplies
          /\ json_obj = <<>>
       \/ \E pre \in SeqsUpTo(Pieces, MaxPieces), post \in Pieces \cup {<<>>} :
             /\ json_obj \in ValidJsonObjects
             /\ arg = Flat(pre) \o json_obj \o post
    /\ ret = <<>>
    /\ ret2 = <<>>
    /\ fpc = "in"
    /\ QueryIdle
    /\ DriverIdle

Recover ==
    /\ fpc = "in"
    /\ ret' = clean_json(arg)
    /\ fpc' = "out"
    /\ UNCHANGED <<arg, ret2, json_obj, qvars, dvars>>

NextJson == Recover

SpecJson == InitJson /\ [][NextJson]_vars

\* C4: for every reply string clean_json does not raise and returns a
\* mapping, and it returns the empty mapping whenever the slice from the
\* first "{" to the last "}" is not parseable JSON.
C4_RecoverNeverFails ==
    fpc = "out" =>
        /\ ~ret.raised
        /\ ret.val.k = "obj"
        /\ ~json_loads(JsonSlice(arg)).ok => ret.val = EmptyMapping

\* C4 witness: a reply whose last "}" stands before its first "{" has been
\* recovered to the empty mapping
C4_Witness ==
    /\ fpc = "out"
    /\ RFind(arg, "}") >= 0
    /\ RFind(arg, "}") < Find(arg, "{")
    /\ ret.val = EmptyMapping

\* C5: for a reply made of <think> blocks, brace-free prose and exactly one
\* valid JSON object, clean_json returns the mapping that parsing the object
\* alone gives.
C5_RecoversEmbeddedObject ==
    (fpc = "out" /\ json_obj # <<>>) => ret.val = json_loads(json_obj).val

---------------------------------------------------------------------------
(* query_ollama: one call, statement by statement                          *)

MaxRetries == 3

None == [kind |-> "None", text |-> <<>>]

Str(t) == [kind |-> "str", text |-> t]

\* how an attempt can end: the response is used, requests.post raises,
\* raise_for_status raises, or reading the payload's "response" field raises
FailureKinds == {"connection", "status", "payload"}

\* str(e) of the exception of each kind
ErrorMessage(kind) ==
    CASE kind = "connection" -> <<"r","e","f","u","s","e","d">>
      [] kind = "status"     -> <<"5","0","3">>
      [] kind = "payload"    -> <<"'","r","e","s","p","o","n","s","e","'">>

\* the "response" field of a payload
ResponseTexts == { <<" ","{","}","\n">>, <<"o","k">> }

InitQuery ==
    /\ retries \in 0..MaxRetries
    /\ attempt = 0
    /\ qpc = "loop"
    /\ qerr = <<>>
    /\ response = <<>>
    /\ qresult = [kind |-> "unset", text |-> <<>>]
    /\ requests = 0
    /\ sleeps = 0
    /\ outcomes = <<>>
    /\ FunctionsIdle
    /\ DriverIdle

\* for attempt in range(retries): the next attempt starts, or the loop is
\* exhausted and the function ends without a return statement
QueryLoop ==
    /\ qpc = "loop"
    /\ IF attempt < retries
       THEN qpc' = "post" /\ UNCHANGED qresult
       ELSE qpc' = "returned" /\ qresult' = None
    /\ UNCHANGED <<retries, attempt, qerr, response, requests, sleeps, outcomes,
                   fvars, dvars>>

\* the request succeeds: return response.json()["response"].strip()
QueryPostOk ==
    /\ qpc = "post"
    /\ \E body \in ResponseTexts :
          /\ response' = body
          /\ qresult' = Str(Strip(body))
    /\ requests' = requests + 1
    /\ outcomes' = Append(outcomes, "ok")
    /\ qpc' = "returned"
    /\ UNCHANGED <<retries, attempt, qerr, sleeps, fvars, dvars>>

\* a statement of the try block raises
QueryPostFail ==
    /\ qpc = "post"
    /\ \E kind \in FailureKinds :
          /\ qerr' = ErrorMessage(kind)
          /\ outcomes' = Append(outcomes, kind)
    /\ requests' = requests + 1
    /\ qpc' = "except"
    /\ UNCHANGED <<retries, attempt, response, qresult, sleeps, fvars, dvars>>

\* a variant of the test of line 56 that no attempt of the loop passes
LastAttempt_OffByOne == attempt = retries

\* if attempt == retries - 1
LastAttempt == attempt = retries - 1

\* except Exception as e: the sentinel on the last attempt, a sleep otherwise
QueryExcept ==
    /\ qpc = "except"
    /\ IF LastAttempt
       THEN qpc' = "returned" /\ qresult' = Str(ErrorPrefix \o qerr)
       ELSE qpc' = "sleep" /\ UNCHANGED qresult
    /\ UNCHANGED <<retries, attempt, qerr, response, requests, sleeps, outcomes,
                   fvars, dvars>>

\* time.sleep(1), then the next value of the loop variable
QuerySleep ==
    /\ qpc = "sleep"
    /\ sleeps' = sleeps + 1
    /\ attempt' = attempt + 1
    /\ qpc' = "loop"
    /\ UNCHANGED <<retries, qerr, response, qresult, requests, outcomes,
                   fvars, dvars>>

NextQuery ==
    QueryLoop \/ QueryPostOk \/ QueryPostFail \/ QueryExcept \/ QuerySleep

SpecQuery == InitQuery /\ [][NextQuery]_vars

\* C2: with a transport that fails on every attempt (connection error or
\* non-2xx status), for every retry count >= 0, query_ollama returns a string
\* that begins with "[ERROR]".
C2_ErrorSentinel ==
    (/\ qpc = "returned"
     /\ \A k \in 1..Len(outcomes) : outcomes[k] \in {"connection", "status"})
    => /\ qresult.kind = "str"
       /\ Len(qresult.text) >= 7
       /\ SubSeq(qresult.text, 1, 7) = SubSeq(ErrorPrefix, 1, 7)

\* the attempts that have ended with an exception
FailedAttempts == {k \in 1..Len(outcomes) : outcomes[k] # "ok"}

\* C11: in one call of query_ollama with retry count n, exactly one request
\* is sent per attempt and at most n in total; no request follows a
\* successful one, whose trimmed response text is returned; a 1-second wait
\* follows each failed attempt except the final one, so that exactly one wait
\* lies between any two consecutive attempts.
C11_RetryDiscipline ==
    \* one request per attempt, at most n in total
    /\ requests = Len(outcomes)
    /\ requests <= retries
    /\ qpc \in {"loop", "post"} => requests = attempt
    /\ qpc \in {"except", "sleep"} => requests = attempt + 1
    \* a successful request is the last one, and its trimmed text is returned
    /\ \A k \in 1..Len(outcomes) :
          outcomes[k] = "ok" =>
             /\ k = Len(outcomes)
             /\ qpc = "returned"
             /\ qresult = Str(Strip(response))
    \* every request but the first has exactly one wait before it
    /\ qpc \in {"loop", "post"} => sleeps = requests
    /\ qpc \in {"except", "sleep"} => sleeps = requests - 1
    \* no wait after the final attempt; a call gives up only after n failures
    /\ qpc = "returned" =>
          /\ sleeps = IF requests = 0 THEN 0 ELSE requests - 1
          /\ FailedAttempts = 1..Len(outcomes) => requests = retries

\* C11 witness: a failed attempt followed by a wait, then a successful one
\* before the retry count is used up, whose payload text had whitespace to
\* trim
C11_Witness ==
    /\ qpc = "returned"
    /\ Len(outcomes) = 2
    /\ outcomes[1] # "ok"
    /\ outcomes[2] = "ok"
    /\ sleeps = 1
    /\ retries > requests
    /\ response # Strip(response)
    /\ qresult = Str(Strip(response))

---------------------------------------------------------------------------
(* summarize_structured: the prompt                                        *)

\* the character limit of clean_text[0:30000]
CharLimit == 30000

\* json_prompt_template, as its stretches of fixed text around the
\* placeholder; each stretch is one element
TemplateHead ==
    << "<the field list, the rules and the checklist>",
       "=== ARTICLE TO PROCESS ===\n" >>

Placeholder == "{text}"

TemplateTail ==
    << "\n=== END ARTICLE ===\n\n",
       "<the format instructions>",
       "=== Example (for structure only, not content!) ===\n\n",
       "<the example object>",
       "=== End of Example ===\n\n" >>

json_prompt_template == TemplateHead \o <<Placeholder>> \o TemplateTail

\* template.replace(old, new): every occurrence of old in the template gives
\* way to the characters of new; what is put in is not searched again
RECURSIVE Replace(_, _, _)
Replace(template, old, new) ==
    IF Len(template) = 0 THEN <<>>
    ELSE IF Head(template) = old
         THEN new \o Replace(Tail(template), old, new)
         ELSE <<Head(template)>> \o Replace(Tail(template), old, new)

\* a slice that stops one character early
SummarizeArgument_OneShort(text) == PySlice(text, 0, CharLimit - 1)

\* the argument the run loop hands to summarize_structured
SummarizeArgument(text) == PySlice(text, 0, CharLimit)

\* the prompt summarize_structured builds from its text argument
BuildPrompt(text) == Replace(json_prompt_template, Placeholder, text)

---------------------------------------------------------------------------
(* The batch run loop                                                      *)

MaxDocs == 3

\* file names list_files_in_directory can give (the extension test ignores
\* letter case)
PdfNames == {"a.pdf", "a.PDF", "b.pdf", "c.pdf"}

\* os.path.splitext(pdf)[0] + ".json"
JsonPath(pdf) ==
    CASE pdf \in {"a.pdf", "a.PDF"} -> "a.json"
      [] pdf = "b.pdf" -> "b.json"
      [] pdf = "c.pdf" -> "c.json"

\* lists of distinct names
PdfLists ==
    {l \in SeqsUpTo(PdfNames, MaxDocs) :
        \A j, k \in 1..Len(l) : j # k => l[j] # l[k]}

\* texts extract_pdf_text_clean can give
ExtractedTexts ==
    { <<"F","a","c","e","-","\n","b","o","o","k">>,
      <<"B","o","d","y","\n","R","e","f","e","r","e","n","c","e","s","\n",
        "S"," ","(","2","0","2","0",")">> }

\* strings query_ollama can give back through summarize_structured
ModelReplies ==
    { ThinkOpen \o <<"r">> \o ThinkClose \o
          <<"{","\"","a","\"",":","\"","x","\"","}">>,
      ErrorPrefix \o ErrorMessage("connection") }

\* the statements of the try block, in order
TryStatements == {"extract", "strip", "prompt", "query", "recover", "write"}

InitDriver ==
    /\ pdfs \in PdfLists
    /\ idx = 0
    /\ pc = "for"
    /\ pdf_text = <<>>
    /\ clean_text = <<>>
    /\ prompt = <<>>
    /\ raw_responses = <<>>
    /\ cleaned = <<>>
    /\ results = <<>>
    /\ files = <<>>
    /\ log = {}
    /\ stages = <<>>
    /\ FunctionsIdle
    /\ QueryIdle

\* for pdf in pdfs
ForNext ==
    /\ pc = "for"
    /\ IF idx < Len(pdfs)
       THEN idx' = idx + 1 /\ pc' = "extract"
       ELSE pc' = "done" /\ UNCHANGED idx
    /\ stages' = <<>>
    /\ UNCHANGED <<pdfs, pdf_text, clean_text, prompt, raw_responses, cleaned,
                   results, files, log, fvars, qvars>>

\* pdf_text = extract_pdf_text_clean(pdf)
Extract ==
    /\ pc = "extract"
    /\ pdf_text' \in ExtractedTexts
    /\ stages' = Append(stages, "extract_pdf_text_clean")
    /\ pc' = "strip"
    /\ UNCHANGED <<pdfs, idx, clean_text, prompt, raw_responses, cleaned,
                   results, files, log, fvars, qvars>>

\* clean_text = strip_citations_and_references(pdf_text)
StripStage ==
    /\ pc = "strip"
    /\ clean_text' = strip_citations_and_references(pdf_text)
    /\ stages' = Append(stages, "strip_citations_and_references")
    /\ pc' = "prompt"
    /\ UNCHANGED <<pdfs, idx, pdf_text, prompt, raw_responses, cleaned,
                   results, files, log, fvars, qvars>>

\* summarize_structured(clean_text[0:30000], ...) up to its call of
\* query_ollama: the prompt is built
PromptStage ==
    /\ pc = "prompt"
    /\ prompt' = BuildPrompt(SummarizeArgument(clean_text))
    /\ stages' = Append(stages, "prompt")
    /\ pc' = "query"
    /\ UNCHANGED <<pdfs, idx, pdf_text, clean_text, raw_responses, cleaned,
                   results, files, log, fvars, qvars>>

\* raw_response = query_ollama(prompt, ...); results.append(raw_responses)
QueryStage ==
    /\ pc = "query"
    /\ \E reply \in ModelReplies :
          /\ raw_responses' = reply
          /\ results' = Append(results, reply)
    /\ stages' = Append(stages, "query_ollama")
    /\ pc' = "recover"
    /\ UNCHANGED <<pdfs, idx, pdf_text, clean_text, prompt, cleaned,
                   files, log, fvars, qvars>>

\* cleaned = clean_json(raw_responses)
RecoverStage ==
    /\ pc = "recover"
    /\ cleaned' = clean_json(raw_responses).val
    /\ stages' = Append(stages, "clean_json")
    /\ pc' = "write"
    /\ UNCHANGED <<pdfs, idx, pdf_text, clean_text, prompt, raw_responses,
                   results, files, log, fvars, qvars>>

\* json.dump(cleaned, f, ...) into the document's .json file
WriteStage ==
    /\ pc = "write"
    /\ files' = Assign(files, JsonPath(pdfs[idx]), cleaned)
    /\ stages' = Append(stages, "write")
    /\ pc' = "for"
    /\ UNCHANGED <<pdfs, idx, pdf_text, clean_text, prompt, raw_responses,
                   cleaned, results, log, fvars, qvars>>

\* an except clause that ends the run
AfterExcept_Halt == "done"

\* where control goes after the except clause of the loop body
AfterExcept == "for"

\* what a file holds when json.dump raised after open(json_path, "w")
\* had emptied it
PartialFile == [k |-> "partial", v |-> <<>>]

\* a statement of the try block raises: except Exception prints the error
\* line of the document
Except ==
    /\ pc \in TryStatements
    /\ log' = log \cup {pdfs[idx]}
    /\ pc' = AfterExcept
    /\ UNCHANGED <<pdfs, idx, pdf_text, clean_text, prompt, raw_responses,
                   cleaned, results, files, stages, fvars, qvars>>

\* the with block raises once the file is open: the file is left as it was
\* when the error came, and the error line is printed
ExceptInWrite ==
    /\ pc = "write"
    /\ files' = Assign(files, JsonPath(pdfs[idx]), PartialFile)
    /\ log' = log \cup {pdfs[idx]}
    /\ pc' = AfterExcept
    /\ UNCHANGED <<pdfs, idx, pdf_text, clean_text, prompt, raw_responses,
                   cleaned, results, stages, fvars, qvars>>

Next ==
    \/ ForNext
    \/ Extract
    \/ StripStage
    \/ PromptStage
    \/ QueryStage
    \/ RecoverStage
    \/ WriteStage
    \/ Except
    \/ ExceptInWrite

Spec == InitDriver /\ [][Next]_vars

\* the stages the pipeline is said to run for a document, in order
PipelineStages ==
    << "clean_pdf_text", "strip_citations_and_references", "prompt",
       "query_ollama", "clean_json" >>

IsPipelineStage(name) == \E k \in 1..Len(PipelineStages) : PipelineStages[k] = name

\* C1: for every document the stages run in the order normalize
\* (clean_pdf_text), strip citations, build prompt, query model, recover
\* JSON, each once, and the text handed to the citation stripper is the
\* output of the normalizer.
C1_StageOrder ==
    pc = "write" =>
        /\ SelectSeq(stages, IsPipelineStage) = PipelineStages
        /\ clean_text = strip_citations_and_references(clean_pdf_text(pdf_text))

\* C3: whatever documents raise, at whatever statement, the loop goes through
\* the whole list, and every document no error line was printed for has its
\* JSON file written.
C3_BatchIsolation ==
    pc = "done" =>
        /\ idx = Len(pdfs)
        /\ \A k \in 1..Len(pdfs) :
              pdfs[k] \in log \/ JsonPath(pdfs[k]) \in DOMAIN files

\* C3 witness: of three documents the second raised, and the first and the
\* third have their files
C3_Witness ==
    /\ pc = "done"
    /\ Len(pdfs) = 3
    /\ log = {pdfs[2]}
    /\ JsonPath(pdfs[1]) \in DOMAIN files
    /\ JsonPath(pdfs[3]) \in DOMAIN files
    /\ JsonPath(pdfs[2]) \notin DOMAIN files
    /\ JsonPath(pdfs[1]) # JsonPath(pdfs[3])

---------------------------------------------------------------------------
(* The prompt of long documents: the run loop from the point where one     *)
(* document has been extracted and stripped                                *)

MaxTail == 2
MaxOver == 1

\* texts of letters only, which strip_citations_and_references leaves as
\* they are: a run of "a" and a tail of other letters
FillLengths == (0..MaxTail) \cup ((CharLimit - 2)..(CharLimit + MaxOver))

LongTexts ==
    {[i \in 1..n |-> "a"] \o tail :
        n \in FillLengths, tail \in SeqsUpTo({"b", "c"}, MaxTail)}

InitPrompt ==
    /\ pdfs = <<"a.pdf">>
    /\ idx = 1
    /\ pc = "prompt"
    /\ pdf_text \in LongTexts
    /\ clean_text = pdf_text
    /\ prompt = <<>>
    /\ raw_responses = <<>>
    /\ cleaned = <<>>
    /\ results = <<>>
    /\ files = <<>>
    /\ log = {}
    /\ stages = <<"extract_pdf_text_clean", "strip_citations_and_references">>
    /\ FunctionsIdle
    /\ QueryIdle

NextPrompt == PromptStage \/ QueryStage

SpecPrompt == InitPrompt /\ [][NextPrompt]_vars

\* C10: the prompt sent to the model is the template with its placeholder
\* replaced by the first 30,000 characters of the scholarly text, verbatim and
\* in order, and by the whole text when it is shorter.
C10_PromptEmbedsPrefix ==
    pc \in {"query", "recover"} =>
        LET n == IF Len(clean_text) > CharLimit THEN CharLimit ELSE Len(clean_text)
            h == Len(TemplateHead)
        IN  /\ Len(prompt) = h + n + Len(TemplateTail)
            /\ \A i \in 1..h : prompt[i] = TemplateHead[i]
            /\ \A i \in 1..n : prompt[h + i] = clean_text[i]
            /\ \A i \in 1..Len(TemplateTail) : prompt[h + n + i] = TemplateTail[i]

\* C10 witness: a text longer than the limit has had its prompt built
C10_Witness == pc = "query" /\ Len(clean_text) > CharLimit

=============================================================================
